---- MODULE Spec2Model ----
(***************************************************************************)
(* Voice-Audio-Segmentation: the Segmenter entry point, the four strategy  *)
(* operations of BaseStrategy, the silence strategy and the segment        *)
(* shaper (_merge_short_segments, _apply_overlap, the hard-limit filter).  *)
(*                                                                         *)
(* Seconds are exact rationals [n, d] (d > 0); samples are integers.       *)
(* Python's float arithmetic is idealised as exact rational arithmetic,    *)
(* int() as truncation toward zero and round() as round-half-to-even.      *)
(***************************************************************************)
EXTENDS Integers, Sequences, FiniteSets

\* ------------------------------------------------------------- bounds
\* Longest audio buffer, in samples, of the enumerated inputs.
MaxLen == 5
\* Most raw intervals the detector returns in the enumerated inputs.
MaxIntervals == 3
\* Most timestamps a custom strategy returns.
MaxCustom == 2

\* A further call is started only while the disk holds at most this many files.
MaxDiskFiles == 1

\* ---------------------------------------------------------- rationals
Q(n, d) == [n |-> n, d |-> d]

RECURSIVE GCD(_, _)
GCD(a, b) == IF b = 0 THEN a ELSE GCD(b, a % b)

\* The same rational in lowest terms (keeps the products below within range).
Norm(q) ==
    LET g == GCD(IF q.n < 0 THEN -q.n ELSE q.n, q.d)
    IN  Q(q.n \div g, q.d \div g)

QLt(a, b) == Norm(a).n * Norm(b).d < Norm(b).n * Norm(a).d

QLe(a, b) == Norm(a).n * Norm(b).d <= Norm(b).n * Norm(a).d

QEq(a, b) == Norm(a) = Norm(b)

\* floor(n / d) for d > 0; TLC's \div rounds toward minus infinity.
Floor(n, d) == n \div d

\* Python int(x) of the real n / d: truncation toward zero.
PyInt(n, d) == IF n >= 0 THEN n \div d ELSE -((-n) \div d)

\* Python round(x) of the real n / d: nearest integer, ties to even.
PyRound(n, d) ==
    LET f == Floor(n, d)
        r == n - f * d
    IN  IF 2 * r < d THEN f
        ELSE IF 2 * r > d THEN f + 1
        ELSE IF f % 2 = 0 THEN f ELSE f + 1

Abs(x) == IF x < 0 THEN -x ELSE x

Max(a, b) == IF a >= b THEN a ELSE b

Min(a, b) == IF a <= b THEN a ELSE b

\* A variant of seconds_to_samples that truncates instead of rounding.
seconds_to_samples_trunc(seconds, sample_rate) ==
    PyInt(Norm(seconds).n * sample_rate, Norm(seconds).d)

\* utilities/math/time_conversion.py: round(seconds * sample_rate).
seconds_to_samples(seconds, sample_rate) ==
    PyRound(Norm(seconds).n * sample_rate, Norm(seconds).d)

\* ------------------------------------------------------------ settings
DefaultSampleRateHz == 16000

DefaultSoftLowerLimit == Q(10, 1)

DefaultSoftUpperLimit == Q(15, 1)

DefaultHardLowerLimit == Q(5, 1)

DefaultHardUpperLimit == Q(30, 1)

DefaultOverlap == Q(1, 2)

DefaultMaximumMergeGapDuration == Q(1, 1)

DefaultMinimumSilenceDuration == Q(1, 2)

\* AudioSettings, DurationSettings and SilenceStrategySettings of one strategy.
Settings(rate, sl, su, hl, hu, ov, mg, ms) ==
    [sample_rate_hz |-> rate,
     soft_lower_limit |-> sl,
     soft_upper_limit |-> su,
     hard_lower_limit |-> hl,
     hard_upper_limit |-> hu,
     overlap |-> ov,
     maximum_merge_gap_duration |-> mg,
     minimum_silence_duration |-> ms]

DefaultSettings ==
    Settings(DefaultSampleRateHz, DefaultSoftLowerLimit, DefaultSoftUpperLimit,
             DefaultHardLowerLimit, DefaultHardUpperLimit, DefaultOverlap,
             DefaultMaximumMergeGapDuration, DefaultMinimumSilenceDuration)

\* Small settings: 2 samples per second, limits of a few samples.
SmallRate == 2

SmallSoftLower == {Q(0, 1), Q(3, 2)}

SmallSoftUpper == {Q(2, 1)}

SmallHardLower == {Q(0, 1), Q(1, 1)}

SmallHardUpper == {Q(2, 1), Q(5, 2)}

SmallOverlap == {Q(-1, 2), Q(0, 1), Q(1, 2), Q(3, 4), Q(1, 1), Q(3, 2)}

SmallMergeGap == {Q(0, 1), Q(1, 2)}

SmallMinSilence == {Q(3, 4), Q(1, 1)}

\* Settings that vary the duration limits; the silence-gap merge is off
\* (threshold 0), so the shaper sees every detector output unchanged.
ShaperSettings ==
    {Settings(SmallRate, sl, su, hl, hu, ov, mg, Q(0, 1)) :
        sl \in SmallSoftLower, su \in SmallSoftUpper, hl \in SmallHardLower,
        hu \in SmallHardUpper, ov \in SmallOverlap, mg \in SmallMergeGap}

\* Settings that vary the silence-gap threshold.
SilenceSettings ==
    {Settings(SmallRate, Q(3, 2), Q(2, 1), Q(1, 1), Q(5, 2), Q(0, 1), Q(1, 2), ms) :
        ms \in SmallMinSilence}

AllSettings == ShaperSettings \cup SilenceSettings \cup {DefaultSettings}

\* A filename template: its literal text and the placeholders it uses.
Template(text, placeholders) == [text |-> text, placeholders |-> placeholders]

\* settings/file.py 40-68: FileSettings with its declared fields and defaults
\* (the model forbids extra fields).
DefaultFileSettings ==
    [output_directory |-> "output",
     output_in_subdirectories |-> TRUE,
     name_template |-> Template("_segment_", {"original_name", "segment_index"}),
     file_format |-> "wav",
     generate_manifest |-> TRUE,
     manifest_name_template |-> Template("_manifest_", {"original_name", "segment_index"})]

\* A template that names a placeholder format_filename does not supply, such
\* as "{missing}_seg".
MissingPlaceholderTemplate == Template("_seg", {"missing"})

\* FileSettings(name_template=..., generate_manifest=..., manifest_name_template=...).
FileSettings(name_template, generate_manifest, manifest_name_template) ==
    [output_directory |-> "output",
     output_in_subdirectories |-> TRUE,
     name_template |-> name_template,
     file_format |-> "wav",
     generate_manifest |-> generate_manifest,
     manifest_name_template |-> manifest_name_template]

\* base.py 105-125: the fields the write loop reads from self.file_settings.
\* BaseStrategy.__init__ (base.py 29-45) stores whatever object it is given; an
\* object of a subclass of FileSettings that also declares
\* output_in_subdirectory and output_segment_in_subdirectory has all of them.
FileSettingsSubclass(output_segment_in_subdirectory, name_template, generate_manifest, manifest_name_template) ==
    [output_directory |-> "output",
     output_in_subdirectories |-> TRUE,
     output_in_subdirectory |-> TRUE,
     output_segment_in_subdirectory |-> output_segment_in_subdirectory,
     name_template |-> name_template,
     file_format |-> "wav",
     generate_manifest |-> generate_manifest,
     manifest_name_template |-> manifest_name_template]

NameTemplates == {DefaultFileSettings.name_template, MissingPlaceholderTemplate}

ManifestNameTemplates ==
    {DefaultFileSettings.manifest_name_template, MissingPlaceholderTemplate}

FileSettingsChoices ==
    {DefaultFileSettings}
      \cup {FileSettings(MissingPlaceholderTemplate, TRUE,
                         DefaultFileSettings.manifest_name_template)}
      \cup {FileSettingsSubclass(FALSE, nt, gm, mt) :
               nt \in NameTemplates, gm \in BOOLEAN, mt \in ManifestNameTemplates}
      \cup {FileSettingsSubclass(TRUE, DefaultFileSettings.name_template, TRUE,
                                 DefaultFileSettings.manifest_name_template)}

\* Reading attribute `name` of a pydantic model succeeds iff the model declares
\* the field; otherwise it raises AttributeError.
HasAttr(obj, name) == name \in DOMAIN obj

\* ---------------------------------------------------------- exceptions
\* exceptions.py: SegmentationError and the subclasses it defines.
SegmentationErrorKinds ==
    {"SegmentationError", "AudioLoadError", "AudioFormatError", "AudioDataError",
     "SegmentWriteError", "InvalidTimestampError", "StrategyError",
     "ConfigurationError", "OutputDirectoryError", "ManifestError"}

\* Imported from segmentation.exceptions by the strategy and the formatter but
\* not defined there; the specification lists them under SegmentationError.
ImportedErrorKinds ==
    {"SilenceDetectionError", "EmptySegmentationError", "TemplateError"}

IsSegmentationError(kind) ==
    kind \in SegmentationErrorKinds \cup ImportedErrorKinds

NoExc == "none"

\* --------------------------------------------------------------- inputs
Seg(s, e) == [start |-> s, end |-> e]

\* Sorted lists of k pairwise-disjoint, non-empty intervals within [0, len].
RECURSIVE IntervalListsFrom(_, _, _)
IntervalListsFrom(lo, len, k) ==
    IF k = 0 THEN {<< >>}
    ELSE {<< >>} \cup
         UNION {{<<Seg(p[1], p[2])>> \o rest :
                    rest \in IntervalListsFrom(p[2], len, k - 1)} :
                p \in {q \in (lo..len) \X (lo..len) : q[1] < q[2]}}

IntervalLists(len) == IntervalListsFrom(0, len, MaxIntervals)

\* The literal scenarios, at the default settings (16 kHz).
SecondsAtDefault(n, d) == (n * DefaultSampleRateHz) \div d

ScenarioS1 ==
    [len |-> SecondsAtDefault(60, 1),
     intervals |-> <<Seg(SecondsAtDefault(0, 1), SecondsAtDefault(18, 1)),
                     Seg(SecondsAtDefault(20, 1), SecondsAtDefault(35, 1)),
                     Seg(SecondsAtDefault(38, 1), SecondsAtDefault(58, 1))>>]

ScenarioS2 ==
    [len |-> SecondsAtDefault(20, 1),
     intervals |-> <<Seg(SecondsAtDefault(0, 1), SecondsAtDefault(12, 1)),
                     Seg(SecondsAtDefault(25, 2), SecondsAtDefault(13, 1))>>]

ScenarioS3 ==
    [len |-> SecondsAtDefault(30, 1),
     intervals |-> <<Seg(SecondsAtDefault(0, 1), SecondsAtDefault(12, 1)),
                     Seg(SecondsAtDefault(20, 1), SecondsAtDefault(203, 10))>>]

ScenarioS4 ==
    [len |-> SecondsAtDefault(45, 1),
     intervals |-> <<Seg(SecondsAtDefault(0, 1), SecondsAtDefault(45, 1))>>]

Scenarios == {ScenarioS1, ScenarioS2, ScenarioS3, ScenarioS4}

\* Buffer lengths a call may be given under `cfg`.
AudioLengths(cfg) ==
    IF cfg = DefaultSettings THEN {s.len : s \in Scenarios} ELSE 1..MaxLen

\* What librosa.effects.split may return for a buffer of `len` samples.
DetectorOutputs(cfg, len) ==
    IF cfg = DefaultSettings
    THEN {s.intervals : s \in {t \in Scenarios : t.len = len}}
    ELSE IntervalLists(len)

\* What a custom strategy's segment_array_to_timestamps may return: pairs
\* (start, end) in seconds, valid and invalid.
CustomPairs ==
    {<<Q(0, 1), Q(1, 1)>>, <<Q(1, 1), Q(2, 1)>>, <<Q(0, 1), Q(1, 4)>>,
     <<Q(-1, 1), Q(1, 1)>>, <<Q(1, 1), Q(-1, 1)>>, <<Q(5, 1), Q(3, 1)>>,
     <<Q(1, 1), Q(1, 1)>>, <<Q(0, 1), Q(3, 1)>>}

RECURSIVE SeqsUpTo(_, _)
SeqsUpTo(S, k) ==
    IF k = 0 THEN {<< >>}
    ELSE LET shorter == SeqsUpTo(S, k - 1)
         IN  shorter \cup {Append(q, x) : q \in shorter, x \in S}

CustomTimestampLists == SeqsUpTo(CustomPairs, MaxCustom)

\* ------------------------------------------------- silence-gap merge
\* strategy.py 67-71: int(minimum_silence_duration * sample_rate_hz).
minimum_gap_samples(cfg) ==
    PyInt(cfg.minimum_silence_duration.n * cfg.sample_rate_hz,
          cfg.minimum_silence_duration.d)

\* A variant of the loop that measures the gap from the start of the current
\* interval.
RECURSIVE gap_merge_loop_from_start(_, _, _, _, _)
gap_merge_loop_from_start(raw, k, cur, acc, min_gap) ==
    IF k > Len(raw) THEN Append(acc, cur)
    ELSE IF raw[k].start - cur.start < min_gap
         THEN gap_merge_loop_from_start(raw, k + 1, Seg(cur.start, raw[k].end), acc,
                                        min_gap)
         ELSE gap_merge_loop_from_start(raw, k + 1, raw[k], Append(acc, cur), min_gap)

\* strategy.py 73-82: the loop over raw_intervals[1:], from position k on, with
\* the current interval (cur) and the intervals emitted so far (acc).
RECURSIVE gap_merge_loop(_, _, _, _, _)
gap_merge_loop(raw, k, cur, acc, min_gap) ==
    IF k > Len(raw) THEN Append(acc, cur)
    ELSE IF raw[k].start - cur.end < min_gap
         THEN gap_merge_loop(raw, k + 1, Seg(cur.start, raw[k].end), acc, min_gap)
         ELSE gap_merge_loop(raw, k + 1, raw[k], Append(acc, cur), min_gap)

\* strategy.py 66-88: merged_intervals, then the segments list.
merged_intervals(raw, min_gap) ==
    IF Len(raw) > 0 THEN gap_merge_loop(raw, 2, raw[1], << >>, min_gap)
    ELSE << >>

\* ------------------------------------------------ short-segment merge
\* base.py 284-302: the thresholds, in samples.
soft_min_samples(cfg) ==
    PyInt(cfg.soft_lower_limit.n * cfg.sample_rate_hz, cfg.soft_lower_limit.d)

hard_max_samples(cfg) ==
    PyInt(cfg.hard_upper_limit.n * cfg.sample_rate_hz, cfg.hard_upper_limit.d)

target_samples(cfg) ==
    PyInt((cfg.soft_lower_limit.n * cfg.soft_upper_limit.d
             + cfg.soft_upper_limit.n * cfg.soft_lower_limit.d) * cfg.sample_rate_hz,
          2 * cfg.soft_lower_limit.d * cfg.soft_upper_limit.d)

max_gap_samples(cfg) ==
    PyInt(cfg.maximum_merge_gap_duration.n * cfg.sample_rate_hz,
          cfg.maximum_merge_gap_duration.d)

\* list.pop(i) with the source's 0-based index i.
Pop(segs, i0) ==
    [k \in 1..(Len(segs) - 1) |-> IF k <= i0 THEN segs[k] ELSE segs[k + 1]]

\* base.py 322-327: can_merge_left (i0 is the 0-based index of current).
can_merge_left(segs, i0, cfg) ==
    /\ i0 > 0
    /\ segs[i0 + 1].end - segs[i0].start <= hard_max_samples(cfg)
    /\ segs[i0 + 1].start - segs[i0].end <= max_gap_samples(cfg)

score_left(segs, i0, cfg) ==
    Abs((segs[i0 + 1].end - segs[i0].start) - target_samples(cfg))

\* base.py 332-337: can_merge_right.
can_merge_right(segs, i0, cfg) ==
    /\ i0 < Len(segs) - 1
    /\ segs[i0 + 2].end - segs[i0 + 1].start <= hard_max_samples(cfg)
    /\ segs[i0 + 2].start - segs[i0 + 1].end <= max_gap_samples(cfg)

score_right(segs, i0, cfg) ==
    Abs((segs[i0 + 2].end - segs[i0 + 1].start) - target_samples(cfg))

\* A variant of the choice that breaks a tie of scores to the right.
prefers_left_strictly(segs, i0, cfg) ==
    /\ can_merge_left(segs, i0, cfg)
    /\ \/ ~can_merge_right(segs, i0, cfg)
       \/ score_left(segs, i0, cfg) < score_right(segs, i0, cfg)

\* base.py 348: the left merge is taken.
prefers_left(segs, i0, cfg) ==
    /\ can_merge_left(segs, i0, cfg)
    /\ \/ ~can_merge_right(segs, i0, cfg)
       \/ score_left(segs, i0, cfg) <= score_right(segs, i0, cfg)

\* A variant of the iteration whose merge to the right removes the current
\* segment without extending the right neighbour over it.
merge_iteration_dropping_current(segs, i0, cfg) ==
    LET current == segs[i0 + 1]
        duration == current.end - current.start
    IN  IF duration >= soft_min_samples(cfg)
        THEN [segments |-> segs, i |-> i0 + 1]
        ELSE IF ~can_merge_left(segs, i0, cfg) /\ ~can_merge_right(segs, i0, cfg)
        THEN [segments |-> segs, i |-> i0 + 1]
        ELSE IF prefers_left(segs, i0, cfg)
        THEN [segments |-> Pop([segs EXCEPT ![i0].end = current.end], i0),
              i |-> Max(0, i0 - 1)]
        ELSE [segments |-> Pop(segs, i0), i |-> i0]

\* A variant of the iteration whose merge to the right extends the right
\* neighbour but leaves the current segment in the list.
merge_iteration_without_pop(segs, i0, cfg) ==
    LET current == segs[i0 + 1]
        duration == current.end - current.start
    IN  IF duration >= soft_min_samples(cfg)
        THEN [segments |-> segs, i |-> i0 + 1]
        ELSE IF ~can_merge_left(segs, i0, cfg) /\ ~can_merge_right(segs, i0, cfg)
        THEN [segments |-> segs, i |-> i0 + 1]
        ELSE IF prefers_left(segs, i0, cfg)
        THEN [segments |-> Pop([segs EXCEPT ![i0].end = current.end], i0),
              i |-> Max(0, i0 - 1)]
        ELSE [segments |-> [segs EXCEPT ![i0 + 2].start = current.start],
              i |-> i0]

\* A variant of the iteration that moves on after a merge to the right.
merge_iteration_advancing(segs, i0, cfg) ==
    LET current == segs[i0 + 1]
        duration == current.end - current.start
    IN  IF duration >= soft_min_samples(cfg)
        THEN [segments |-> segs, i |-> i0 + 1]
        ELSE IF ~can_merge_left(segs, i0, cfg) /\ ~can_merge_right(segs, i0, cfg)
        THEN [segments |-> segs, i |-> i0 + 1]
        ELSE IF prefers_left(segs, i0, cfg)
        THEN [segments |-> Pop([segs EXCEPT ![i0].end = current.end], i0),
              i |-> Max(0, i0 - 1)]
        ELSE [segments |-> Pop([segs EXCEPT ![i0 + 2].start = current.start], i0),
              i |-> i0 + 1]

\* base.py 305-367: one iteration of the while loop, from (segments, i) with
\* i < len(segments), to the next (segments, i).
merge_iteration(segs, i0, cfg) ==
    LET current == segs[i0 + 1]
        duration == current.end - current.start
    IN  IF duration >= soft_min_samples(cfg)
        THEN [segments |-> segs, i |-> i0 + 1]
        ELSE IF ~can_merge_left(segs, i0, cfg) /\ ~can_merge_right(segs, i0, cfg)
        THEN [segments |-> segs, i |-> i0 + 1]
        ELSE IF prefers_left(segs, i0, cfg)
        THEN [segments |-> Pop([segs EXCEPT ![i0].end = current.end], i0),
              i |-> Max(0, i0 - 1)]
        ELSE [segments |-> Pop([segs EXCEPT ![i0 + 2].start = current.start], i0),
              i |-> i0]

\* ----------------------------------------------------- overlap padding
\* A variant of the padding that pads by the whole overlap on each side.
padding_samples_full(cfg) == seconds_to_samples(cfg.overlap, cfg.sample_rate_hz)

\* base.py 255-259: int(seconds_to_samples(overlap / 2, sample_rate_hz)).
padding_samples(cfg) ==
    seconds_to_samples(Q(cfg.overlap.n, 2 * cfg.overlap.d), cfg.sample_rate_hz)

\* A variant of _apply_overlap that joins padded segments that overlap.
RECURSIVE apply_overlap_remerged(_, _, _)
apply_overlap_remerged(segs, audio_length_samples, cfg) ==
    IF cfg.overlap.n <= 0 \/ Len(segs) = 0 THEN segs
    ELSE LET head == Seg(Max(0, Head(segs).start - padding_samples(cfg)),
                         Min(audio_length_samples, Head(segs).end + padding_samples(cfg)))
             rest == apply_overlap_remerged(Tail(segs), audio_length_samples, cfg)
         IN  IF Len(rest) > 0 /\ head.end > rest[1].start
             THEN <<Seg(head.start, Max(head.end, rest[1].end))>> \o Tail(rest)
             ELSE <<head>> \o rest

\* A variant of _apply_overlap that does not clamp to the buffer.
apply_overlap_unclamped(segs, audio_length_samples, cfg) ==
    IF cfg.overlap.n <= 0 THEN segs
    ELSE [k \in 1..Len(segs) |->
            Seg(segs[k].start - padding_samples(cfg),
                segs[k].end + padding_samples(cfg))]

\* A variant of _apply_overlap that pads the end of each segment only.
apply_overlap_end_only(segs, audio_length_samples, cfg) ==
    IF cfg.overlap.n <= 0 THEN segs
    ELSE [k \in 1..Len(segs) |->
            Seg(segs[k].start,
                Min(audio_length_samples, segs[k].end + padding_samples(cfg)))]

\* base.py 240-269: _apply_overlap.
apply_overlap(segs, audio_length_samples, cfg) ==
    IF cfg.overlap.n <= 0 THEN segs
    ELSE [k \in 1..Len(segs) |->
            Seg(Max(0, segs[k].start - padding_samples(cfg)),
                Min(audio_length_samples, segs[k].end + padding_samples(cfg)))]

\* ----------------------------------------------------- hard-limit filter
Timestamp(s, e) == [start |-> s, end |-> e]

\* base.py 209-211: (end - start) / sample_rate_hz.
segment_duration(seg, cfg) == Q(seg.end - seg.start, cfg.sample_rate_hz)

\* A variant of the filter that also drops durations equal to a limit.
keeps_segment_strict(seg, cfg) ==
    /\ QLt(cfg.hard_lower_limit, segment_duration(seg, cfg))
    /\ QLt(segment_duration(seg, cfg), cfg.hard_upper_limit)

\* A variant of the tests without the hard upper limit.
keeps_segment_without_upper(seg, cfg) ==
    ~QLt(segment_duration(seg, cfg), cfg.hard_lower_limit)

\* base.py 213-229: the segment passes both hard-limit tests.
keeps_segment(seg, cfg) ==
    /\ ~QLt(segment_duration(seg, cfg), cfg.hard_lower_limit)
    /\ ~QLt(cfg.hard_upper_limit, segment_duration(seg, cfg))

\* A variant of the filter loop that emits the survivors last-first.
RECURSIVE filter_segments_reversed(_, _)
filter_segments_reversed(segs, cfg) ==
    IF Len(segs) = 0 THEN << >>
    ELSE LET seg == Head(segs)
             rest == filter_segments_reversed(Tail(segs), cfg)
         IN  IF keeps_segment(seg, cfg)
             THEN rest \o <<Timestamp(Q(seg.start, cfg.sample_rate_hz),
                                      Q(seg.end, cfg.sample_rate_hz))>>
             ELSE rest

\* base.py 206-238: the filter loop over overlapped_segments.
RECURSIVE filter_segments(_, _)
filter_segments(segs, cfg) ==
    IF Len(segs) = 0 THEN << >>
    ELSE LET seg == Head(segs)
             rest == filter_segments(Tail(segs), cfg)
         IN  IF keeps_segment(seg, cfg)
             THEN <<Timestamp(Q(seg.start, cfg.sample_rate_hz),
                              Q(seg.end, cfg.sample_rate_hz))>> \o rest
             ELSE rest

\* ---------------------------------------------------------------- state
VARIABLES
    strategy,            \* class name of the strategy the Segmenter holds
    settings,            \* audio, duration and silence settings of the strategy
    file_settings,       \* the strategy's FileSettings
    pc,                  \* position of the call in progress
    call,                \* arguments of the Segmenter.segment call in progress
    audio_len,           \* len(audio) of the buffer being segmented
    decoded,             \* what load_audio met when it loaded the file
    raw_intervals,       \* what the detector returned
    shaper_input,        \* segments passed to _process_raw_segments
    segments,            \* the list _merge_short_segments rewrites in place
    i,                   \* index of the scan in _merge_short_segments
    overlapped_segments, \* result of _apply_overlap
    timestamps,          \* result of segment_array_to_timestamps
    index,               \* index of the write loop
    slice,               \* [start_index, end_index) of the last slice taken
    segments_data,       \* the map segment_array_to_files accumulates
    disk,                \* files on disk
    ts_exc,              \* exception raised by segment_array_to_timestamps
    op_exc,              \* exception escaping the strategy operation
    seg_exc,             \* exception escaping Segmenter.segment
    seg_cause,           \* the exception Segmenter.segment wrapped, if it wrapped one
    exc_args             \* arguments of the exception escaping the operation

vars ==
    <<strategy, settings, file_settings, pc, call, audio_len, decoded, raw_intervals,
      shaper_input, segments, i, overlapped_segments, timestamps, index, slice,
      segments_data, disk, ts_exc, op_exc, seg_exc, seg_cause, exc_args>>

NoCall == [audio |-> "none", output_to_file |-> FALSE]

NoSlice == <<0, 0>>

\* The call has not loaded a file.
NotLoaded == "not_loaded"

\* The custom strategy is constructed with one small settings object; the
\* silence strategy with any.
CustomSettings ==
    Settings(SmallRate, Q(3, 2), Q(2, 1), Q(1, 1), Q(5, 2), Q(0, 1), Q(1, 2), Q(0, 1))

Init ==
    /\ \/ /\ strategy = "SilenceStrategy"
          /\ settings \in AllSettings
          /\ file_settings \in FileSettingsChoices
          /\ settings = DefaultSettings \/ file_settings = DefaultFileSettings
       \/ /\ strategy = "CustomStrategy"
          /\ settings = CustomSettings
          /\ file_settings \in FileSettingsChoices
    /\ pc = "idle"
    /\ call = NoCall
    /\ audio_len = 0
    /\ decoded = NotLoaded
    /\ raw_intervals = << >>
    /\ shaper_input = << >>
    /\ segments = << >>
    /\ i = 0
    /\ overlapped_segments = << >>
    /\ timestamps = << >>
    /\ index = 0
    /\ slice = NoSlice
    /\ segments_data = << >>
    /\ disk = {}
    /\ ts_exc = NoExc
    /\ op_exc = NoExc
    /\ seg_exc = NoExc
    /\ seg_cause = NoExc
    /\ exc_args = << >>

shaper_vars == <<raw_intervals, shaper_input, segments, i, overlapped_segments>>

write_vars == <<index, slice, segments_data, disk>>

config_vars == <<strategy, settings, file_settings>>

\* ------------------------------------------------------------ exceptions
\* A variant of the handlers of Segmenter.segment that re-raises everything.
segmenter_except_reraising(kind) == kind

\* segmenter.py 89-94: domain errors are re-raised, anything else is wrapped.
segmenter_except(kind) ==
    IF IsSegmentationError(kind) THEN kind ELSE "SegmentationError"

\* segmenter.py 92-94: `raise SegmentationError(...) from e` records the
\* wrapped exception as the cause; a re-raise adds none.
segmenter_cause(kind) ==
    IF IsSegmentationError(kind) THEN NoExc ELSE kind

\* A variant of the handler of segment_array_to_files that lets domain
\* errors through.
files_except_passing(kind) ==
    IF IsSegmentationError(kind) THEN kind ELSE "StrategyError"

\* base.py 75-80: every exception of segment_array_to_timestamps becomes
\* StrategyError.
files_except(kind) == "StrategyError"

\* An exception `kind` raised inside segment_array_to_timestamps, as it reaches
\* the caller of the strategy operation and the caller of Segmenter.segment.
RaiseInTimestamps(kind) ==
    /\ pc' = "raised"
    /\ ts_exc' = kind
    /\ op_exc' = IF call.output_to_file THEN files_except(kind) ELSE kind
    /\ seg_exc' = segmenter_except(IF call.output_to_file THEN files_except(kind) ELSE kind)
    /\ seg_cause' = segmenter_cause(IF call.output_to_file THEN files_except(kind) ELSE kind)
    /\ exc_args' = IF call.output_to_file
                   THEN <<strategy, "Failed to generate timestamps", kind>>
                   ELSE << >>

\* An exception raised by the strategy operation itself (load_audio, the
\* write loop), outside segment_array_to_timestamps.
RaiseInOperation(kind, args) ==
    /\ pc' = "raised"
    /\ op_exc' = kind
    /\ seg_exc' = segmenter_except(kind)
    /\ seg_cause' = segmenter_cause(kind)
    /\ exc_args' = args
    /\ UNCHANGED ts_exc

\* --------------------------------------------------------------- actions
\* segmenter.py 60-72 and validators.py 9-46: Segmenter.segment validates its
\* input (outside the try block) and dispatches on (is_path, output_to_file).
Segment ==
    /\ pc = "idle"
    /\ Cardinality(disk) <= MaxDiskFiles
    /\ \E audio \in {"path", "ndarray", "other"}, output_to_file \in BOOLEAN,
          len \in {0} \cup AudioLengths(settings) :
        /\ call' = [audio |-> audio, output_to_file |-> output_to_file]
        /\ IF audio = "other" \/ (audio = "ndarray" /\ len = 0)
           THEN /\ pc' = "raised"
                /\ seg_exc' = "AudioDataError"
                /\ UNCHANGED <<audio_len, decoded, ts_exc, op_exc, seg_cause, exc_args>>
           ELSE /\ pc' = IF audio = "path" THEN "load" ELSE "timestamps"
                /\ audio_len' = IF audio = "path" THEN 0 ELSE len
                /\ UNCHANGED <<decoded, ts_exc, op_exc, seg_exc, seg_cause, exc_args>>
    /\ UNCHANGED <<config_vars, shaper_vars, timestamps, write_vars>>

\* Buffer lengths the decoder may return under `cfg`.
LoadedLengths(cfg) ==
    IF cfg = DefaultSettings THEN {s.len : s \in Scenarios} ELSE {MaxLen}

\* audio_loader.py 27-48: what load_audio may meet: no such path, a path that
\* is no regular file, a decoder failure whose text mentions "format" or
\* "codec" or neither, a decoded buffer that is empty, no ndarray, holds
\* non-finite values, or is sound.
LoadOutcomes ==
    {"missing", "not_a_file", "decoder_format", "decoder_codec", "decoder_other",
     "empty", "not_ndarray", "non_finite", "ok"}

\* audio_loader.py 12-55: the exception load_audio raises on `outcome`; the
\* values of the buffer are not inspected.
load_audio_exc(outcome) ==
    CASE outcome \in {"missing", "not_a_file"} -> "AudioLoadError"
      [] outcome \in {"decoder_format", "decoder_codec"} -> "AudioFormatError"
      [] outcome = "decoder_other" -> "AudioLoadError"
      [] outcome \in {"empty", "not_ndarray"} -> "AudioDataError"
      [] OTHER -> NoExc

\* base.py 159-189: the file variants load the buffer, then call the array
\* variant.
LoadAudio ==
    /\ pc = "load"
    /\ \E outcome \in LoadOutcomes, len \in LoadedLengths(settings) :
        IF load_audio_exc(outcome) # NoExc
        THEN /\ RaiseInOperation(load_audio_exc(outcome), <<outcome>>)
             /\ decoded' = outcome
             /\ UNCHANGED audio_len
        ELSE /\ pc' = "timestamps"
             /\ audio_len' = len
             /\ decoded' = outcome
             /\ UNCHANGED <<ts_exc, op_exc, seg_exc, seg_cause, exc_args>>
    /\ UNCHANGED <<config_vars, call, shaper_vars, timestamps, write_vars>>

\* strategy.py 57-65: librosa's split returns the non-silent intervals or
\* raises; whatever it raises becomes SilenceDetectionError.
Detect ==
    /\ pc = "timestamps"
    /\ strategy = "SilenceStrategy"
    /\ \/ /\ \E raw \in DetectorOutputs(settings, audio_len) : raw_intervals' = raw
          /\ pc' = "gap_merge"
          /\ UNCHANGED <<ts_exc, op_exc, seg_exc, seg_cause, exc_args>>
       \/ /\ RaiseInTimestamps("SilenceDetectionError")
          /\ UNCHANGED raw_intervals
    /\ UNCHANGED <<config_vars, call, audio_len, decoded, shaper_input, segments, i,
                   overlapped_segments, timestamps, write_vars>>

\* strategy.py 66-90: the silence-gap merge; its result enters
\* _process_raw_segments, whose first step is _merge_short_segments.
GapMerge ==
    /\ pc = "gap_merge"
    /\ shaper_input' = merged_intervals(raw_intervals, minimum_gap_samples(settings))
    /\ segments' = shaper_input'
    /\ i' = 0
    /\ pc' = "merge"
    /\ UNCHANGED <<config_vars, call, audio_len, decoded, raw_intervals, overlapped_segments,
                   timestamps, write_vars, ts_exc, op_exc, seg_exc, seg_cause, exc_args>>

\* base.py 305-367: one iteration of the scan.
MergeIteration ==
    /\ pc = "merge"
    /\ i < Len(segments)
    /\ segments' = merge_iteration(segments, i, settings).segments
    /\ i' = merge_iteration(segments, i, settings).i
    /\ UNCHANGED <<config_vars, pc, call, audio_len, decoded, raw_intervals, shaper_input,
                   overlapped_segments, timestamps, write_vars, ts_exc, op_exc,
                   seg_exc, seg_cause, exc_args>>

\* base.py 203-204: the scan is over; _apply_overlap pads its result.
ApplyOverlap ==
    /\ pc = "merge"
    /\ i >= Len(segments)
    /\ overlapped_segments' = apply_overlap(segments, audio_len, settings)
    /\ pc' = "filter"
    /\ UNCHANGED <<config_vars, call, audio_len, decoded, raw_intervals, shaper_input,
                   segments, i, timestamps, write_vars, ts_exc, op_exc, seg_exc, seg_cause,
                   exc_args>>

\* segment_array_to_timestamps returns `ts` to the operation that called it.
ReturnTimestamps(ts) ==
    /\ timestamps' = ts
    /\ pc' = IF call.output_to_file THEN "write" ELSE "returned"
    /\ UNCHANGED <<ts_exc, op_exc, seg_exc, seg_cause, exc_args>>

\* A variant of the end of the silence strategy's segment_array_to_timestamps
\* that returns the list even when it is empty.
Filter_without_empty_check ==
    /\ pc = "filter"
    /\ ReturnTimestamps(filter_segments(overlapped_segments, settings))
    /\ UNCHANGED <<config_vars, call, audio_len, decoded, shaper_vars, write_vars>>

\* base.py 206-238 and strategy.py 90-102: the hard-limit filter, then the
\* empty-result check of the silence strategy.
Filter ==
    /\ pc = "filter"
    /\ IF filter_segments(overlapped_segments, settings) = << >>
       THEN /\ RaiseInTimestamps("EmptySegmentationError")
            /\ UNCHANGED timestamps
       ELSE ReturnTimestamps(filter_segments(overlapped_segments, settings))
    /\ UNCHANGED <<config_vars, call, audio_len, decoded, shaper_vars, write_vars>>

CustomExceptions == {"ValueError", "ConfigurationError"}

\* base.py 49-59: any other strategy's segment_array_to_timestamps returns a
\* list of its choosing, or raises.
CustomTimestamps ==
    /\ pc = "timestamps"
    /\ strategy = "CustomStrategy"
    /\ \/ \E ts \in CustomTimestampLists :
            ReturnTimestamps([k \in 1..Len(ts) |-> Timestamp(ts[k][1], ts[k][2])])
       \/ /\ \E kind \in CustomExceptions : RaiseInTimestamps(kind)
          /\ UNCHANGED timestamps
    /\ UNCHANGED <<config_vars, call, audio_len, decoded, shaper_vars, write_vars>>

\* ------------------------------------------------------------ write loop
ReasonNegative == "Timestamps cannot be negative"

ReasonOrder == "Start time must be before end time"

ReasonDuration == "End time exceeds audio duration"

\* A variant of the validation that tests the duration before the order.
timestamp_fault_duration_first(ts, len, rate) ==
    IF ts.start.n < 0 \/ ts.end.n < 0 THEN ReasonNegative
    ELSE IF QLt(Q(len, rate), ts.end) THEN ReasonDuration
    ELSE IF ~QLt(ts.start, ts.end) THEN ReasonOrder
    ELSE "ok"

\* segment_writer.py 21-22: the message an empty slice is rejected with.
EmptySegmentMessage == "Cannot write empty audio segment"

\* base.py 88-97: the reason the timestamp is rejected with, or "ok".
timestamp_fault(ts, len, rate) ==
    IF ts.start.n < 0 \/ ts.end.n < 0 THEN ReasonNegative
    ELSE IF ~QLt(ts.start, ts.end) THEN ReasonOrder
    ELSE IF QLt(Q(len, rate), ts.end) THEN ReasonDuration
    ELSE "ok"

\* segmenter.py 71 and base.py 189: "array_input" for a buffer, the stem of
\* the path for a file.
original_name(c) == IF c.audio = "path" THEN "clip" ELSE "array_input"

KnownPlaceholders == {"original_name", "segment_index"}

\* A variant of format_filename that leaves the segment index out of the name.
format_filename_without_index(name, segment_index, template, file_format) ==
    [text |-> template.text,
     original_name |-> IF "original_name" \in template.placeholders THEN name ELSE "",
     segment_index |-> -1,
     extension |-> file_format]

\* filename_formatter.py 21-36: the rendered filename.
format_filename(name, segment_index, template, file_format) ==
    [text |-> template.text,
     original_name |-> IF "original_name" \in template.placeholders THEN name ELSE "",
     segment_index |-> IF "segment_index" \in template.placeholders
                       THEN segment_index ELSE -1,
     extension |-> file_format]

\* output_path_builder.py 43-54: the directory, as its path components.
output_directory_path(output_directory, in_subdirectory, segment_in_subdirectory, name, segment_index) ==
    <<output_directory>>
      \o (IF in_subdirectory THEN <<name>> ELSE << >>)
      \o (IF segment_in_subdirectory THEN <<"segment", segment_index>> ELSE << >>)

\* output_path_builder.py 68-81: build_path.
build_path(directory, filename) == [directory |-> directory, filename |-> filename]

\* filename_formatter.py 21-33: str.format raises KeyError on a placeholder
\* other than original_name and segment_index, which becomes TemplateError.
format_filename_exc(template) ==
    IF template.placeholders \subseteq KnownPlaceholders THEN NoExc ELSE "TemplateError"

\* base.py 105-111 and 127: the directory of segment `segment_index`.
output_directory_for(fs, name, segment_index) ==
    output_directory_path(fs.output_directory, fs.output_in_subdirectory,
                          fs.output_segment_in_subdirectory, name, segment_index)

\* base.py 113-118 and 127: the path of the audio file of segment `segment_index`.
segment_path_for(fs, name, segment_index) ==
    build_path(output_directory_for(fs, name, segment_index),
               format_filename(name, segment_index, fs.name_template, fs.file_format))

\* base.py 120-128: the path of the manifest of segment `segment_index`.
manifest_path_for(fs, name, segment_index) ==
    build_path(output_directory_for(fs, name, segment_index),
               format_filename(name, segment_index, fs.manifest_name_template, "json"))

\* base.py 135-141: the manifest of segment `segment_index`.
manifest_for(fs, name, segment_index, ts) ==
    [original_file |-> name, index |-> segment_index,
     segment_file |-> segment_path_for(fs, name, segment_index),
     start_time |-> ts.start, end_time |-> ts.end]

\* base.py 99-102: the slice audio[start_index:end_index] of timestamp `ts`.
segment_slice(ts, rate) ==
    <<seconds_to_samples(ts.start, rate), seconds_to_samples(ts.end, rate)>>

\* dict[key] = value on an insertion-ordered dict kept as a sequence of pairs.
dict_set(d, key, value) ==
    IF \E k \in 1..Len(d) : d[k].key = key
    THEN [k \in 1..Len(d) |-> IF d[k].key = key THEN [key |-> key, value |-> value]
                               ELSE d[k]]
    ELSE Append(d, [key |-> key, value |-> value])

\* Writing `content` to `path`, replacing what the path held; `complete` is
\* FALSE when the write failed midway and left a truncated file.
disk_write(d, path, content, complete) ==
    {f \in d : f.path # path}
        \cup {[path |-> path, complete |-> complete, content |-> content]}

\* What the file system and the encoder may do during one iteration; a write
\* that fails may have created or truncated its file already.
IoOutcomes ==
    [mkdir : {"ok", "permission_denied", "failed"},
     write : {"ok", "failed", "failed_partial"},
     manifest : {"ok", "failed", "failed_partial"}]

\* base.py 86-155: one iteration of the write loop of segment_array_to_files,
\* for the timestamp at `index`.
WriteSegment ==
    /\ pc = "write"
    /\ index < Len(timestamps)
    /\ LET ts == timestamps[index + 1]
            rate == settings.sample_rate_hz
            fault == timestamp_fault(ts, audio_len, rate)
            start_index == segment_slice(ts, rate)[1]
            end_index == segment_slice(ts, rate)[2]
            name == original_name(call)
        IN  IF fault # "ok"
            THEN /\ RaiseInOperation("InvalidTimestampError", <<ts.start, ts.end, fault>>)
                 /\ UNCHANGED write_vars
            ELSE IF \/ ~HasAttr(file_settings, "output_directory")
                    \/ ~HasAttr(file_settings, "output_in_subdirectory")
                    \/ ~HasAttr(file_settings, "output_segment_in_subdirectory")
            THEN \* base.py 105-108: reading a field FileSettings does not declare
                 /\ RaiseInOperation("AttributeError", << >>)
                 /\ slice' = <<start_index, end_index>>
                 /\ UNCHANGED <<index, segments_data, disk>>
            ELSE LET directory == output_directory_for(file_settings, name, index)
                     segment_filename ==
                         format_filename(name, index, file_settings.name_template,
                                         file_settings.file_format)
                     segment_path == segment_path_for(file_settings, name, index)
                     manifest_path == manifest_path_for(file_settings, name, index)
                     manifest == manifest_for(file_settings, name, index, ts)
                     written == disk_write(disk, segment_path, <<start_index, end_index>>, TRUE)
                 IN  \E io \in IoOutcomes :
                     /\ slice' = <<start_index, end_index>>
                     /\ IF io.mkdir # "ok"
                        THEN \* output_path_builder.py 56-63
                             /\ RaiseInOperation("OutputDirectoryError", <<directory, io.mkdir>>)
                             /\ UNCHANGED <<index, segments_data, disk>>
                        ELSE IF format_filename_exc(file_settings.name_template) # NoExc
                        THEN \* base.py 113-118
                             /\ RaiseInOperation(
                                    format_filename_exc(file_settings.name_template),
                                    <<file_settings.name_template, "Missing placeholder">>)
                             /\ UNCHANGED <<index, segments_data, disk>>
                        ELSE IF format_filename_exc(file_settings.manifest_name_template)
                                  # NoExc
                        THEN \* base.py 120-125: formatted whether or not a manifest
                             \* is to be written
                             /\ RaiseInOperation(
                                    format_filename_exc(file_settings.manifest_name_template),
                                    <<file_settings.manifest_name_template,
                                      "Missing placeholder">>)
                             /\ UNCHANGED <<index, segments_data, disk>>
                        ELSE IF Max(0, Min(audio_len, end_index))
                                  - Max(0, Min(audio_len, start_index)) <= 0
                        THEN \* segment_writer.py 21-22: the slice is empty
                             /\ RaiseInOperation("AudioDataError",
                                    <<EmptySegmentMessage>>)
                             /\ UNCHANGED <<index, segments_data, disk>>
                        ELSE IF io.write # "ok"
                        THEN \* segment_writer.py 34-37
                             /\ RaiseInOperation("SegmentWriteError", <<segment_path>>)
                             /\ disk' = IF io.write = "failed_partial"
                                        THEN disk_write(disk, segment_path,
                                                        <<start_index, end_index>>, FALSE)
                                        ELSE disk
                             /\ UNCHANGED <<index, segments_data>>
                        ELSE IF file_settings.generate_manifest /\ io.manifest # "ok"
                        THEN \* manifest_builder.py 50-54: the segment stays written
                             /\ RaiseInOperation("ManifestError", <<manifest_path>>)
                             /\ disk' = IF io.manifest = "failed_partial"
                                        THEN disk_write(written, manifest_path, manifest, FALSE)
                                        ELSE written
                             /\ UNCHANGED <<index, segments_data>>
                        ELSE /\ disk' = IF file_settings.generate_manifest
                                        THEN disk_write(written, manifest_path, manifest, TRUE)
                                        ELSE written
                             /\ segments_data' =
                                    dict_set(segments_data, segment_filename, segment_path)
                             /\ index' = index + 1
                             /\ UNCHANGED <<pc, ts_exc, op_exc, seg_exc, seg_cause, exc_args>>
    /\ UNCHANGED <<config_vars, call, audio_len, decoded, shaper_vars, timestamps>>

\* base.py 157: the loop is over and the map is returned.
ReturnFiles ==
    /\ pc = "write"
    /\ index >= Len(timestamps)
    /\ pc' = "returned"
    /\ UNCHANGED <<config_vars, call, audio_len, decoded, shaper_vars, timestamps, write_vars,
                   ts_exc, op_exc, seg_exc, seg_cause, exc_args>>

\* The call is over (returned or raised); the Segmenter takes the next one.
\* Only the disk outlives a call.
Finish ==
    /\ pc \in {"returned", "raised"}
    /\ pc' = "idle"
    /\ call' = NoCall
    /\ audio_len' = 0
    /\ decoded' = NotLoaded
    /\ raw_intervals' = << >>
    /\ shaper_input' = << >>
    /\ segments' = << >>
    /\ i' = 0
    /\ overlapped_segments' = << >>
    /\ timestamps' = << >>
    /\ index' = 0
    /\ slice' = NoSlice
    /\ segments_data' = << >>
    /\ ts_exc' = NoExc
    /\ op_exc' = NoExc
    /\ seg_exc' = NoExc
    /\ seg_cause' = NoExc
    /\ exc_args' = << >>
    /\ UNCHANGED <<config_vars, disk>>

Next ==
    \/ Segment
    \/ LoadAudio
    \/ Detect
    \/ GapMerge
    \/ MergeIteration
    \/ ApplyOverlap
    \/ Filter
    \/ CustomTimestamps
    \/ WriteSegment
    \/ ReturnFiles
    \/ Finish

Spec == Init /\ [][Next]_vars

\* ------------------------------------------------------------- properties
\* a - b, in lowest terms.
QSub(a, b) ==
    Norm(Q(Norm(a).n * Norm(b).d - Norm(b).n * Norm(a).d, Norm(a).d * Norm(b).d))

\* The silence strategy's shaper has returned a non-empty timestamp list.
ShaperReturned == strategy = "SilenceStrategy" /\ timestamps # << >>

\* The timestamp the filter emits for a padded segment.
StampOf(seg) ==
    Timestamp(Q(seg.start, settings.sample_rate_hz), Q(seg.end, settings.sample_rate_hz))

\* C1: every timestamp (s, e) the shaper returns satisfies
\* 0 <= s < e <= buffer_len / rate, whatever the overlap.
C1_TimestampsWithinBuffer ==
    ShaperReturned =>
        \A k \in 1..Len(timestamps) :
            /\ QLe(Q(0, 1), timestamps[k].start)
            /\ QLt(timestamps[k].start, timestamps[k].end)
            /\ QLe(timestamps[k].end, Q(audio_len, settings.sample_rate_hz))

\* C1 witness: with overlap > 0, a segment whose padded end would pass the end
\* of the buffer is emitted, and so is one whose padded start would pass 0.
C1_Witness ==
    /\ ShaperReturned
    /\ pc = "returned"
    /\ settings.overlap.n > 0
    /\ \E k \in 1..Len(segments) :
        /\ segments[k].end + padding_samples(settings) > audio_len
        /\ keeps_segment(overlapped_segments[k], settings)
    /\ \E k \in 1..Len(segments) :
        /\ segments[k].start - padding_samples(settings) < 0
        /\ keeps_segment(overlapped_segments[k], settings)

\* C2: every timestamp the shaper returns has a duration within
\* [hard_lower_limit, hard_upper_limit], and a padded segment whose duration
\* equals either limit (and respects the other) is among the timestamps.
C2_DurationWithinHardLimits ==
    ShaperReturned =>
        /\ \A k \in 1..Len(timestamps) :
            /\ QLe(settings.hard_lower_limit,
                   QSub(timestamps[k].end, timestamps[k].start))
            /\ QLe(QSub(timestamps[k].end, timestamps[k].start),
                   settings.hard_upper_limit)
        /\ \A k \in 1..Len(overlapped_segments) :
            LET duration == Q(overlapped_segments[k].end - overlapped_segments[k].start,
                              settings.sample_rate_hz)
            IN  (/\ QEq(duration, settings.hard_lower_limit)
                    \/ QEq(duration, settings.hard_upper_limit)
                 /\ QLe(settings.hard_lower_limit, duration)
                 /\ QLe(duration, settings.hard_upper_limit))
                => \E j \in 1..Len(timestamps) :
                        timestamps[j] = StampOf(overlapped_segments[k])

\* C2 witness: one returned timestamp lasts exactly hard_lower_limit (> 0) and
\* another exactly hard_upper_limit.
C2_Witness ==
    /\ ShaperReturned
    /\ pc = "returned"
    /\ settings.hard_lower_limit.n > 0
    /\ \E k \in 1..Len(timestamps) :
        QEq(QSub(timestamps[k].end, timestamps[k].start), settings.hard_lower_limit)
    /\ \E k \in 1..Len(timestamps) :
        QEq(QSub(timestamps[k].end, timestamps[k].start), settings.hard_upper_limit)

\* Strictly increasing maps from 1..n into 1..m.
IncreasingMaps(n, m) ==
    {f \in [1..n -> 1..m] : \A a, b \in 1..n : a < b => f[a] < f[b]}

\* C3 as stated: the start of each returned timestamp is less than the start
\* of the next one.
C3_StartsStrictlyIncrease ==
    ShaperReturned =>
        \A k \in 1..(Len(timestamps) - 1) :
            QLt(timestamps[k].start, timestamps[k + 1].start)

\* C3 as amended: the starts never decrease, and two consecutive starts are
\* equal only when both are clamped to 0; the returned timestamps are, in
\* order, the padded forms of some of the merged segments, which lie in the
\* order of the input intervals.
C3_StartsNeverDecrease ==
    ShaperReturned =>
        /\ \A k \in 1..(Len(timestamps) - 1) :
            /\ QLe(timestamps[k].start, timestamps[k + 1].start)
            /\ \/ QLt(timestamps[k].start, timestamps[k + 1].start)
               \/ timestamps[k + 1].start.n = 0
        /\ Len(overlapped_segments) = Len(segments)
        /\ \E f \in IncreasingMaps(Len(timestamps), Len(segments)) :
            /\ \A j \in 1..Len(timestamps) :
                /\ timestamps[j] = StampOf(overlapped_segments[f[j]])
                /\ overlapped_segments[f[j]].start <= segments[f[j]].start
                /\ segments[f[j]].end <= overlapped_segments[f[j]].end
            /\ \A j \in 1..(Len(timestamps) - 1) :
                segments[f[j]].end <= segments[f[j + 1]].start

\* C3 witness: three padded segments, the middle one dropped by the filter,
\* the other two returned.
C3_Witness ==
    /\ ShaperReturned
    /\ pc = "returned"
    /\ settings.overlap.n > 0
    /\ Len(overlapped_segments) = 3
    /\ Len(timestamps) = 2
    /\ ~keeps_segment(overlapped_segments[2], settings)

\* Samples shared by two consecutive returned timestamps (their numerators
\* are sample indices).
SharedSamples(a, b) == Max(0, a.end.n - b.start.n)

\* C4 as stated: with overlap = 0 consecutive returned intervals are disjoint;
\* with overlap > 0 they share at most overlap * rate samples.
C4_ShareAtMostOverlap ==
    ShaperReturned =>
        \A k \in 1..(Len(timestamps) - 1) :
            /\ settings.overlap.n = 0 =>
                SharedSamples(timestamps[k], timestamps[k + 1]) = 0
            /\ settings.overlap.n > 0 =>
                QLe(Q(SharedSamples(timestamps[k], timestamps[k + 1]), 1),
                    Q(settings.overlap.n * settings.sample_rate_hz, settings.overlap.d))

\* C4 as amended: with overlap = 0 consecutive returned intervals are disjoint;
\* with overlap > 0 they share at most 2 * round(overlap / 2 * rate) samples,
\* which is at most overlap * rate + 1.
C4_ShareAtMostTwicePadding ==
    ShaperReturned =>
        LET pad == PyRound(settings.overlap.n * settings.sample_rate_hz,
                           2 * settings.overlap.d)
        IN  \A k \in 1..(Len(timestamps) - 1) :
                /\ settings.overlap.n = 0 =>
                    SharedSamples(timestamps[k], timestamps[k + 1]) = 0
                /\ settings.overlap.n > 0 =>
                    /\ SharedSamples(timestamps[k], timestamps[k + 1]) <= 2 * pad
                    /\ QLe(Q(2 * pad, 1),
                           Q(settings.overlap.n * settings.sample_rate_hz
                               + settings.overlap.d, settings.overlap.d))

\* C4 witness: overlap > 0 with a half that is no whole number of samples, and
\* two adjacent merged segments (gap 0) both returned, sharing 2 * pad samples.
C4_Witness ==
    /\ ShaperReturned
    /\ pc = "returned"
    /\ settings.overlap.n > 0
    /\ (settings.overlap.n * settings.sample_rate_hz) % (2 * settings.overlap.d) # 0
    /\ \E k \in 1..(Len(timestamps) - 1) :
        /\ SharedSamples(timestamps[k], timestamps[k + 1])
             = 2 * padding_samples(settings)
        /\ \E j \in 1..(Len(segments) - 1) : segments[j].end = segments[j + 1].start

\* The call runs scenario S1: default settings, a 60 s buffer at 16 kHz, the
\* detector returns [0,18), [20,35), [38,58) seconds.
InScenarioS1 ==
    /\ strategy = "SilenceStrategy"
    /\ settings = DefaultSettings
    /\ audio_len = ScenarioS1.len
    /\ raw_intervals = ScenarioS1.intervals

\* The list `ts` holds exactly the (start, end) pairs of `expected`, in order.
TimestampsAre(ts, expected) ==
    /\ Len(ts) = Len(expected)
    /\ \A k \in 1..Len(expected) :
        /\ QEq(ts[k].start, expected[k][1])
        /\ QEq(ts[k].end, expected[k][2])

\* C5 as stated: in scenario S1 the timestamps are exactly
\* [(0.00,18.25),(19.75,35.25),(37.75,58.00)].
C5_ScenarioS1AsStated ==
    (InScenarioS1 /\ pc \in {"write", "returned", "raised"}) =>
        TimestampsAre(timestamps,
                      <<<<Q(0, 1), Q(73, 4)>>, <<Q(79, 4), Q(141, 4)>>,
                        <<Q(151, 4), Q(58, 1)>>>>)

\* C5 as amended: in scenario S1 the timestamps are exactly
\* [(0.00,18.25),(19.75,35.25),(37.75,58.25)], three of them (indices 0,1,2):
\* the last end is padded like the others, the buffer ending at 60 s.
C5_ScenarioS1 ==
    (InScenarioS1 /\ pc \in {"write", "returned", "raised"}) =>
        TimestampsAre(timestamps,
                      <<<<Q(0, 1), Q(73, 4)>>, <<Q(79, 4), Q(141, 4)>>,
                        <<Q(151, 4), Q(233, 4)>>>>)

\* C5 witness: scenario S1 has returned its three timestamps.
C5_Witness ==
    /\ InScenarioS1
    /\ pc = "returned"
    /\ ~call.output_to_file
    /\ Len(timestamps) = 3

C7_DomainErrorsPropagate ==
    (/\ pc = "raised"
     /\ call.output_to_file
     /\ ts_exc # NoExc
     /\ IsSegmentationError(ts_exc))
    => op_exc = ts_exc

\* The silence detector raised during the call.
DetectorRaised == pc = "raised" /\ ts_exc = "SilenceDetectionError"

\* C8 as stated: a detector exception reaches the caller of each of the four
\* strategy operations as StrategyError(name, reason).
C8_DetectorFailureIsStrategyError ==
    DetectorRaised =>
        /\ op_exc = "StrategyError"
        /\ Len(exc_args) = 3
        /\ exc_args[1] = strategy

\* C8 as amended: a detector exception reaches the caller of the two
\* to-timestamps operations as SilenceDetectionError, and the caller of the two
\* to-files operations as StrategyError(name, reason) caused by it.
C8_DetectorFailureByOperation ==
    DetectorRaised =>
        IF call.output_to_file
        THEN /\ op_exc = "StrategyError"
             /\ Len(exc_args) = 3
             /\ exc_args[1] = strategy
             /\ exc_args[3] = "SilenceDetectionError"
        ELSE op_exc = "SilenceDetectionError"

\* C8 witness: the detector raised inside segment_file_to_files.
C8_Witness ==
    /\ DetectorRaised
    /\ call = [audio |-> "path", output_to_file |-> TRUE]
    /\ op_exc = "StrategyError"

\* The reason the claim gives for rejecting (start, end): negative first, then
\* start >= end, then end beyond the duration.
ClaimedReason(ts) ==
    IF QLt(ts.start, Q(0, 1)) \/ QLt(ts.end, Q(0, 1)) THEN ReasonNegative
    ELSE IF QLe(ts.end, ts.start) THEN ReasonOrder
    ELSE IF QLt(Q(audio_len, settings.sample_rate_hz), ts.end) THEN ReasonDuration
    ELSE "ok"

\* The write loop of segment_array_to_files has run to its end on a non-empty
\* timestamp list.
WriteLoopOver ==
    /\ call.output_to_file
    /\ timestamps # << >>
    /\ pc \in {"raised", "returned"}

\* C9: the first timestamp of the list that is invalid makes the write loop
\* raise InvalidTimestampError(start, end, reason) with that pair and the
\* reason in the order negative, start >= end, end beyond duration.
C9_FirstInvalidTimestampRaises ==
    (WriteLoopOver /\ \E k \in 1..Len(timestamps) : ClaimedReason(timestamps[k]) # "ok")
    => LET first == CHOOSE k \in 1..Len(timestamps) :
                        /\ ClaimedReason(timestamps[k]) # "ok"
                        /\ \A j \in 1..(k - 1) : ClaimedReason(timestamps[j]) = "ok"
       IN  /\ op_exc = "InvalidTimestampError"
           /\ exc_args = <<timestamps[first].start, timestamps[first].end,
                           ClaimedReason(timestamps[first])>>

\* C10: with the default FileSettings and n >= 1 valid timestamps,
\* segment_array_to_files returns a map of n entries, entry k keyed by the
\* filename of segment index k - 1 and valued by its path.
C10_FilesMapHasOneEntryPerSegment ==
    (/\ WriteLoopOver
     /\ file_settings = DefaultFileSettings
     /\ \A k \in 1..Len(timestamps) : ClaimedReason(timestamps[k]) = "ok")
    => /\ pc = "returned"
       /\ Len(segments_data) = Len(timestamps)
       /\ \A k \in 1..Len(segments_data) :
            /\ segments_data[k].key =
                 format_filename(original_name(call), k - 1,
                                 file_settings.name_template, file_settings.file_format)
            /\ segments_data[k].value.filename = segments_data[k].key

\* A segment_*_to_files call is in, or has left, its write loop.
WritingCall ==
    /\ call.output_to_file
    /\ timestamps # << >>
    /\ pc \in {"write", "raised", "returned"}

\* The audio file of segment j of the call, as the write loop writes it.
SegmentFile(j) ==
    [path |-> segment_path_for(file_settings, original_name(call), j),
     complete |-> TRUE,
     content |-> segment_slice(timestamps[j + 1], settings.sample_rate_hz)]

\* The manifest of segment j of the call, as the write loop writes it.
ManifestFile(j) ==
    [path |-> manifest_path_for(file_settings, original_name(call), j),
     complete |-> TRUE,
     content |-> manifest_for(file_settings, original_name(call), j, timestamps[j + 1])]

\* The paths of the two files of segment j.
PathsOf(j) ==
    {segment_path_for(file_settings, original_name(call), j),
     manifest_path_for(file_settings, original_name(call), j)}

\* The failures of the write loop the claim lists.
WriteLoopFailures ==
    {"InvalidTimestampError", "OutputDirectoryError", "TemplateError",
     "AudioDataError", "SegmentWriteError", "ManifestError"}

\* C11: segments are written in index order; throughout the loop and after a
\* failure at index k the audio file and the manifest of every index < k are
\* on disk as written, a step of the loop touches only the files of the
\* current index, the index moves on by one at a time, and once the call has
\* raised nothing more is written.
C11_NoRollbackNoSkippingAhead ==
    /\ [](WritingCall =>
            \A j \in 0..(index - 1) :
                /\ SegmentFile(j) \in disk
                /\ file_settings.generate_manifest => ManifestFile(j) \in disk)
    /\ [][/\ pc = "write" =>
              /\ index' \in {index, index + 1}
              /\ pc' = "raised" => index' = index
              /\ \A f \in disk' : f \in disk \/ f.path \in PathsOf(index)
              /\ \A f \in disk : f \in disk' \/ f.path \in PathsOf(index)
          /\ pc = "raised" => disk' = disk]_vars

\* C11 witness: the call failed at index 1 in one of the listed ways and the
\* audio file and the manifest of index 0 are on disk.
C11_Witness ==
    /\ WritingCall
    /\ pc = "raised"
    /\ op_exc \in WriteLoopFailures
    /\ index = 1
    /\ file_settings.generate_manifest
    /\ SegmentFile(0) \in disk
    /\ ManifestFile(0) \in disk

\* C12: with generate_manifest false, a segment_*_to_files call writes no
\* manifest and does not fail because of the manifest template: no .json file
\* is on disk, and a TemplateError of the call is about the name template.
C12_ManifestOnlyIfGenerated ==
    (WritingCall /\ ~file_settings.generate_manifest) =>
        /\ \A f \in disk : f.path.filename.extension # "json"
        /\ (pc = "raised" /\ op_exc = "TemplateError") =>
              /\ exc_args[1] = file_settings.name_template
              /\ format_filename_exc(file_settings.name_template) # NoExc

\* C13: whatever escapes Segmenter.segment is a SegmentationError or a subtype:
\* a domain error of the strategy operation escapes as it is, any other
\* exception escapes as SegmentationError with that exception as its cause.
C13_OnlySegmentationErrorsEscape ==
    pc = "raised" =>
        /\ IsSegmentationError(seg_exc)
        /\ (op_exc # NoExc /\ IsSegmentationError(op_exc)) =>
              seg_exc = op_exc /\ seg_cause = NoExc
        /\ (op_exc # NoExc /\ ~IsSegmentationError(op_exc)) =>
              seg_exc = "SegmentationError" /\ seg_cause = op_exc

\* C13 witness: an AttributeError of the write loop escaped wrapped, for a
\* path input written to files.
C13_Witness ==
    /\ pc = "raised"
    /\ call = [audio |-> "path", output_to_file |-> TRUE]
    /\ op_exc = "AttributeError"
    /\ seg_exc = "SegmentationError"
    /\ seg_cause = "AttributeError"

\* The silence-gap merge of the call has run.
GapMerged ==
    /\ strategy = "SilenceStrategy"
    /\ pc \in {"merge", "filter", "write", "returned"}

\* C14: the silence-gap merge applied to its own output returns that output;
\* every gap between consecutive output intervals is at least the threshold;
\* no raw interval gives no output interval.
C14_GapMergeIdempotent ==
    GapMerged =>
        LET min_gap == minimum_gap_samples(settings)
        IN  /\ merged_intervals(shaper_input, min_gap) = shaper_input
            /\ \A k \in 1..(Len(shaper_input) - 1) :
                  shaper_input[k + 1].start - shaper_input[k].end >= min_gap
            /\ raw_intervals = << >> => shaper_input = << >>

\* C14 witness: three raw intervals, the first two closer than the threshold
\* and merged, the third kept apart.
C14_Witness ==
    /\ GapMerged
    /\ Len(raw_intervals) = 3
    /\ raw_intervals[2].start - raw_intervals[1].end < minimum_gap_samples(settings)
    /\ raw_intervals[3].start - raw_intervals[2].end = minimum_gap_samples(settings)
    /\ shaper_input = <<Seg(raw_intervals[1].start, raw_intervals[2].end),
                        raw_intervals[3]>>

\* The shaper of the silence strategy has run to its end: it returned
\* timestamps, or none were left.
ShaperDone ==
    /\ strategy = "SilenceStrategy"
    /\ timestamps # << >> \/ ts_exc = "EmptySegmentationError"

\* Segment k of the scan's result is among the returned timestamps.
Emitted(k) ==
    \E j \in 1..Len(timestamps) : timestamps[j] = StampOf(overlapped_segments[k])

\* Segment k of the scan's result is an input interval the scan left as it was.
LeftUnmerged(k) ==
    \E j \in 1..Len(shaper_input) : shaper_input[j] = segments[k]

\* The call runs scenario S3: default settings, a 30 s buffer at 16 kHz, the
\* detector returns [0,12) and [20,20.3) seconds.
InScenarioS3 ==
    /\ strategy = "SilenceStrategy"
    /\ settings = DefaultSettings
    /\ audio_len = ScenarioS3.len
    /\ raw_intervals = ScenarioS3.intervals

\* C15 as stated: a segment the scan left unmerged whose unpadded duration is
\* below hard_lower is not emitted.
C15_PaddingNeverRescues ==
    ShaperDone =>
        \A k \in 1..Len(segments) :
            (/\ LeftUnmerged(k)
             /\ QLt(Q(segments[k].end - segments[k].start, settings.sample_rate_hz),
                    settings.hard_lower_limit))
            => ~Emitted(k)

\* C15 as amended: a segment of the scan's result is emitted exactly when its
\* padded, clamped duration lies within [hard_lower, hard_upper], whatever
\* its unpadded duration; in S3 the padded [19.75,20.55) is dropped and
\* [(0, 12.25)] is returned.
C15_PaddedDurationDecides ==
    ShaperDone =>
        /\ Len(overlapped_segments) = Len(segments)
        /\ \A k \in 1..Len(segments) :
              Emitted(k) <=>
                LET padded == Q(overlapped_segments[k].end - overlapped_segments[k].start,
                                settings.sample_rate_hz)
                IN  /\ QLe(settings.hard_lower_limit, padded)
                    /\ QLe(padded, settings.hard_upper_limit)
        /\ InScenarioS3 => TimestampsAre(timestamps, <<<<Q(0, 1), Q(49, 4)>>>>)

\* C15 witness: a segment left unmerged, shorter than hard_lower before
\* padding, has been emitted next to one that was dropped.
C15_Witness ==
    /\ ShaperDone
    /\ pc = "returned"
    /\ \E k \in 1..Len(segments) :
         /\ LeftUnmerged(k)
         /\ QLt(Q(segments[k].end - segments[k].start, settings.sample_rate_hz),
                settings.hard_lower_limit)
         /\ Emitted(k)
    /\ \E k \in 1..Len(segments) : ~Emitted(k)

\* C16: the silence-gap merge uses the threshold
\* seconds_to_samples(minimum_silence_duration, rate) = round(duration * rate)
\* and merges two consecutive raw intervals exactly when their gap is strictly
\* below it: the intervals handed to the shaper are those of that merge.
C16_ThresholdIsRounded ==
    GapMerged =>
        LET threshold == seconds_to_samples(settings.minimum_silence_duration,
                                            settings.sample_rate_hz)
        IN  /\ shaper_input = merged_intervals(raw_intervals, threshold)
            /\ \A k \in 1..(Len(raw_intervals) - 1) :
                  (raw_intervals[k + 1].start - raw_intervals[k].end < threshold)
                  <=> ~\E j \in 1..Len(shaper_input) :
                          shaper_input[j].end = raw_intervals[k].end

\* C17: a segment_*_to_files call whose name template uses a placeholder
\* other than original_name and segment_index fails with
\* TemplateError(template, "Missing placeholder: ..."), unless the validation
\* of the timestamp or the creation of the directory, which come first, have
\* failed already; the call writes no file.
C17_UnknownPlaceholderRaisesTemplateError ==
    (WriteLoopOver /\ format_filename_exc(file_settings.name_template) # NoExc) =>
        /\ pc = "raised"
        /\ \/ /\ op_exc = "TemplateError"
              /\ exc_args = <<file_settings.name_template, "Missing placeholder">>
           \/ op_exc \in {"InvalidTimestampError", "OutputDirectoryError"}
        /\ index = 0
        /\ disk = {}

\* The error kind the claim gives for each outcome of loading.
ClaimedLoadError(outcome) ==
    CASE outcome \in {"missing", "not_a_file", "decoder_other"} -> "AudioLoadError"
      [] outcome \in {"decoder_format", "decoder_codec"} -> "AudioFormatError"
      [] outcome \in {"empty", "non_finite"} -> "AudioDataError"
      [] OTHER -> NoExc

\* C18: load_audio raises the claimed error kind for a missing path, a path
\* that is no regular file, a decoder failure, and an empty or non-finite
\* buffer, and returns a buffer only otherwise.
C18_LoadAudioClassifies ==
    (decoded # NotLoaded /\ decoded # "not_ndarray") =>
        IF ClaimedLoadError(decoded) # NoExc
        THEN /\ pc = "raised"
             /\ op_exc = ClaimedLoadError(decoded)
             /\ audio_len = 0
        ELSE audio_len > 0

\* The call runs scenario S2: default settings, a 20 s buffer at 16 kHz, the
\* detector returns [0,12) and [12.5,13) seconds.
InScenarioS2 ==
    /\ strategy = "SilenceStrategy"
    /\ settings = DefaultSettings
    /\ audio_len = ScenarioS2.len
    /\ raw_intervals = ScenarioS2.intervals

\* One iteration of the scan as the claim describes it, on the segment at the
\* (0-based) position i: the list and the position it leaves.
ScanStepAsClaimed ==
    LET n == Len(segments)
        cur == segments[i + 1]
        left == segments[i]
        right == segments[i + 2]
        admissible_left ==
            /\ i > 0
            /\ cur.start - left.end <= max_gap_samples(settings)
            /\ cur.end - left.start <= hard_max_samples(settings)
        admissible_right ==
            /\ i + 1 < n
            /\ right.start - cur.end <= max_gap_samples(settings)
            /\ right.end - cur.start <= hard_max_samples(settings)
        left_score == Abs(cur.end - left.start - target_samples(settings))
        right_score == Abs(right.end - cur.start - target_samples(settings))
        merged_left ==
            [k \in 1..(n - 1) |->
                IF k < i THEN segments[k]
                ELSE IF k = i THEN Seg(left.start, cur.end)
                ELSE segments[k + 1]]
        merged_right ==
            [k \in 1..(n - 1) |->
                IF k <= i THEN segments[k]
                ELSE IF k = i + 1 THEN Seg(cur.start, right.end)
                ELSE segments[k + 1]]
    IN  IF cur.end - cur.start >= soft_min_samples(settings)
        THEN segments' = segments /\ i' = i + 1
        ELSE IF ~admissible_left /\ ~admissible_right
        THEN segments' = segments /\ i' = i + 1
        ELSE IF admissible_left /\ (~admissible_right \/ left_score <= right_score)
        THEN segments' = merged_left /\ i' = i - 1
        ELSE segments' = merged_right /\ i' = i

\* C19: every iteration of the short-segment scan follows the rule: a merge
\* is admissible iff gap <= max_gap and merged duration <= hard_max; a short
\* segment is merged into the admissible neighbour of lower score, the left
\* one on a tie; with no admissible neighbour the list stays and the scan
\* advances. In S2 the scan yields [0,13) and the call returns (0, 13.25).
C19_ScanFollowsScoringRule ==
    /\ [][(pc = "merge" /\ i < Len(segments)) => ScanStepAsClaimed]_vars
    /\ []((InScenarioS2 /\ pc \in {"filter", "write", "returned"}) =>
            /\ segments = <<Seg(0, SecondsAtDefault(13, 1))>>
            /\ pc # "filter" => TimestampsAre(timestamps, <<<<Q(0, 1), Q(53, 4)>>>>))

\* C19 witness: the scan has merged a short segment into its left neighbour
\* on a tie of scores, both neighbours being admissible.
C19_Witness ==
    /\ pc = "merge"
    /\ Len(shaper_input) = 3
    /\ segments = <<Seg(shaper_input[1].start, shaper_input[2].end), shaper_input[3]>>
    /\ can_merge_left(shaper_input, 1, settings)
    /\ can_merge_right(shaper_input, 1, settings)
    /\ score_left(shaper_input, 1, settings) = score_right(shaper_input, 1, settings)
    /\ shaper_input[1].end - shaper_input[1].start >= soft_min_samples(settings)
    /\ shaper_input[2].end - shaper_input[2].start < soft_min_samples(settings)

\* The short-segment scan of the call has finished.
ScanFinished ==
    /\ strategy = "SilenceStrategy"
    /\ pc \in {"filter", "write", "returned"} \/ (pc = "raised" /\ ts_exc = "EmptySegmentationError")

\* Segments k and k + 1 of the scan's result could be merged admissibly.
AdmissiblePair(k) ==
    /\ segments[k + 1].start - segments[k].end <= max_gap_samples(settings)
    /\ segments[k + 1].end - segments[k].start <= hard_max_samples(settings)

\* Segment k of the scan's result is shorter than soft_min.
ShortSegment(k) ==
    segments[k].end - segments[k].start < soft_min_samples(settings)

\* C20: when the scan has finished, no segment shorter than soft_min has an
\* adjacent neighbour with which a merge is admissible.
C20_NoAdmissibleMergeLeft ==
    ScanFinished =>
        \A k \in 1..(Len(segments) - 1) :
            (ShortSegment(k) \/ ShortSegment(k + 1)) => ~AdmissiblePair(k)

\* C20 witness: the scan merged some intervals and left a short segment next
\* to a neighbour it could not be merged with.
C20_Witness ==
    /\ ScanFinished
    /\ Len(segments) < Len(shaper_input)
    /\ \E k \in 1..(Len(segments) - 1) :
         /\ ShortSegment(k) \/ ShortSegment(k + 1)
         /\ ~AdmissiblePair(k)

\* The scan is at an iteration: the loop test i < len(segments) has passed.
ScanIterating ==
    /\ pc = "merge"
    /\ i < Len(segments)

\* The variant of the scan: twice the length of the list minus the index.
ScanVariant(segs, i0) == 2 * Len(segs) - i0

\* C21: the short-segment scan terminates: the index stays within
\* 0..len(segments), a neighbour is read only at a position that exists, each
\* iteration either advances the index over an unchanged list or removes one
\* segment without advancing, and each iteration strictly decreases the
\* variant 2 * len(segments) - i, which is never negative.
C21_ScanTerminates ==
    /\ [](pc = "merge" =>
            /\ i \in 0..Len(segments)
            /\ ScanVariant(segments, i) >= 0)
    /\ [](ScanIterating =>
            /\ can_merge_left(segments, i, settings) => i - 1 \in 0..(Len(segments) - 1)
            /\ can_merge_right(segments, i, settings) => i + 1 \in 0..(Len(segments) - 1)
            /\ LET next == merge_iteration(segments, i, settings)
               IN  ScanVariant(next.segments, next.i) < ScanVariant(segments, i))
    /\ [][ScanIterating =>
            /\ \/ i' = i + 1 /\ segments' = segments
               \/ Len(segments') = Len(segments) - 1 /\ i' <= i
            /\ i' \in 0..Len(segments')
            /\ ScanVariant(segments', i') < ScanVariant(segments, i)]_vars

\* C21 witness: the scan has run to its end over three intervals, the first
\* one not short: both later intervals were merged to the left, each merge
\* stepping the index back.
C21_Witness ==
    /\ pc = "merge"
    /\ Len(shaper_input) = 3
    /\ shaper_input[1].end - shaper_input[1].start >= soft_min_samples(settings)
    /\ segments = <<Seg(shaper_input[1].start, shaper_input[3].end)>>
    /\ i = Len(segments)

\* The overlap padding of the call has run.
PaddingDone ==
    /\ strategy = "SilenceStrategy"
    /\ pc \in {"filter", "write", "returned"} \/ (pc = "raised" /\ ts_exc = "EmptySegmentationError")

\* round((overlap / 2) * rate), in samples.
ClaimedPad == PyRound(settings.overlap.n * settings.sample_rate_hz, 2 * settings.overlap.d)

\* C22: with overlap > 0 the padding maps segment k of the scan's result to
\* (max(0, start - pad), min(buffer_len, end + pad)), pad = round((overlap / 2)
\* * rate): as many segments, in the same order, every bound within
\* [0, buffer_len], overlapping results kept apart; with overlap <= 0 the
\* list is returned as it is.
C22_PaddingMapsEachSegment ==
    PaddingDone =>
        IF settings.overlap.n > 0
        THEN /\ Len(overlapped_segments) = Len(segments)
             /\ \A k \in 1..Len(segments) :
                  /\ overlapped_segments[k] =
                        Seg(Max(0, segments[k].start - ClaimedPad),
                            Min(audio_len, segments[k].end + ClaimedPad))
                  /\ overlapped_segments[k].start \in 0..audio_len
                  /\ overlapped_segments[k].end \in 0..audio_len
        ELSE overlapped_segments = segments

\* C22 witness: with overlap > 0 two segments were padded, the first clamped
\* at 0 and the second at the end of the buffer, and the padded segments
\* overlap and are both in the result.
C22_Witness ==
    /\ PaddingDone
    /\ settings.overlap.n > 0
    /\ ClaimedPad > 0
    /\ Len(segments) = 2
    /\ Len(overlapped_segments) = 2
    /\ segments[1].start < ClaimedPad
    /\ segments[2].end + ClaimedPad > audio_len
    /\ segments[1].end < segments[2].start
    /\ overlapped_segments[1].end > overlapped_segments[2].start

\* The short-segment scan of the call is running or has run.
ScanStarted ==
    /\ strategy = "SilenceStrategy"
    /\ \/ pc \in {"merge", "filter", "write", "returned"}
       \/ (pc = "raised" /\ ts_exc = "EmptySegmentationError")

\* The list is sorted and its intervals are non-empty and pairwise disjoint.
SortedDisjoint(segs) ==
    /\ \A k \in 1..Len(segs) : segs[k].start < segs[k].end
    /\ \A k \in 1..(Len(segs) - 1) : segs[k].end <= segs[k + 1].start

\* The positions of the segments of the scan's list that contain `interval`.
SegmentsContaining(interval) ==
    {k \in 1..Len(segments) :
        segments[k].start <= interval.start /\ interval.end <= segments[k].end}

\* C23: the scan is given a sorted list of pairwise-disjoint intervals, and
\* at every step and at its end its list is sorted and pairwise disjoint,
\* every segment starts at an input start and ends at an input end, every
\* input interval lies in exactly one segment, and the list never grows.
C23_ScanPreservesStructure ==
    /\ [](ScanStarted =>
            /\ SortedDisjoint(shaper_input)
            /\ SortedDisjoint(segments)
            /\ \A k \in 1..Len(segments) :
                 /\ \E a \in 1..Len(shaper_input) :
                        segments[k].start = shaper_input[a].start
                 /\ \E b \in 1..Len(shaper_input) :
                        segments[k].end = shaper_input[b].end
            /\ \A a \in 1..Len(shaper_input) :
                 Cardinality(SegmentsContaining(shaper_input[a])) = 1
            /\ Len(segments) <= Len(shaper_input))
    /\ [][pc = "merge" => Len(segments') <= Len(segments)]_vars

\* C23 witness: the scan has merged three intervals separated by silence
\* into one segment, which spans the silence between them.
C23_Witness ==
    /\ ScanStarted
    /\ pc = "merge"
    /\ i = Len(segments)
    /\ Len(shaper_input) = 3
    /\ shaper_input[1].end < shaper_input[2].start
    /\ shaper_input[2].end < shaper_input[3].start
    /\ segments = <<Seg(shaper_input[1].start, shaper_input[3].end)>>

\* Segment k of the scan's result was dropped by the hard-upper test of the
\* filter: it is not among the timestamps and its padded duration exceeds
\* hard_upper.
DiscardedAsTooLong(k) ==
    /\ ~Emitted(k)
    /\ QLt(settings.hard_upper_limit, segment_duration(overlapped_segments[k], settings))

\* C24 as stated: a segment the scan formed by admissible merges is not
\* dropped by the hard-upper test of the filter, whatever the overlap.
C24_AdmissibleMergeSurvivesFilter ==
    ShaperDone =>
        \A k \in 1..Len(segments) :
            (/\ ~LeftUnmerged(k)
             /\ segments[k].end - segments[k].start <= hard_max_samples(settings))
            => ~DiscardedAsTooLong(k)

\* C25 as stated: every timestamp of the write loop that passes the three
\* validation checks has a non-empty slice within the buffer, and the loop
\* never fails with the AudioDataError of an empty segment.
C25_ValidatedSliceNonEmpty ==
    WritingCall =>
        /\ \A j \in 1..Len(timestamps) :
              timestamp_fault(timestamps[j], audio_len, settings.sample_rate_hz) = "ok" =>
                LET s == segment_slice(timestamps[j], settings.sample_rate_hz)
                IN  0 <= s[1] /\ s[1] < s[2] /\ s[2] <= audio_len
        /\ ~(/\ pc = "raised"
             /\ op_exc = "AudioDataError"
             /\ exc_args = <<EmptySegmentMessage>>)

\* The file was written in full by an earlier call: it is complete and its
\* path is not one the write loop of this call has been through.
FromEarlierCall(f) ==
    /\ f.complete
    /\ \A j \in 0..(index - 1) : f.path \notin PathsOf(j)

\* C26 as stated: while a call on an in-memory array writes its files, every
\* file an earlier call left on disk stays as it is.
C26_LaterCallKeepsEarlierFiles ==
    [][(pc = "write" /\ call.audio = "ndarray") =>
          \A f \in disk : FromEarlierCall(f) => f \in disk']_vars

====
